---- MODULE Spec2Model ----
(***************************************************************************)
(* Model of joblib/logger.py: the PrintTime helper (elapsed-time reports   *)
(* to stderr and to a rotating log file) and the time formatting helpers.  *)
(*                                                                         *)
(* Time is counted in eighths of a second.  The file system holds one      *)
(* directory "d" and, inside it, the log file d/joblib.log (slot 0) and    *)
(* its numbered backups d/joblib.log.i (slot i).  A second path,           *)
(* "test.log", has no directory component.                                 *)
(*                                                                         *)
(* Spec:     the calls of one caller, each call one step (constructions    *)
(*           and reports in any order, any file-system call may fail).     *)
(* SpecSolo: one constructor, one step per file-system call.               *)
(* SpecRace: two constructors on the same path, their steps interleaved.   *)
(***************************************************************************)
EXTENDS Integers, Sequences, FiniteSets

VARIABLES
    clock,      \* last value returned by time.time()
    platform,   \* sys.platform family: "win" or "posix"
    dir,        \* does directory "d" exist
    files,      \* slot -> [exists, data]: the log file and its backups
    timer,      \* the PrintTime object bound by the caller (print_time)
    stderr,     \* lines printed to sys.stderr
    raised,     \* exception the last call raised to its caller, or "none"
    last,       \* the last call: its name and local results
    sess,       \* history of the current timer and count of the reports
    spent,      \* events so far: calls, clock ticks, injected failures
    pc,         \* step-wise constructors: position of each process
    loc,        \* step-wise constructors: locals of each process
    env         \* step-wise constructors: the processes, was a failure injected

vars == <<clock, platform, dir, files, timer, stderr, raised, last, sess,
          spent, pc, loc, env>>

seqVars == <<clock, platform, dir, files, timer, stderr, raised, last, sess,
             spent>>
stepVars == <<pc, loc, env>>

----------------------------------------------------------------------------
(* Bounds of the model *)

\* A run holds at most MaxEvents events: an event is a call, a tick of the
\* clock, or an injected failure of a file-system call.
MaxEvents == 6

(* range(1, 9): backups .1 to .8 are examined by the rotation loop *)
NumBackups == 8

Slots == 0 .. (NumBackups + 1)
Backups == 1 .. (NumBackups + 1)

None == "None"
Msgs == {"Foo"}
LogFiles == {None, "test.log", "d/joblib.log"}
LogDirs == {None, "d"}

----------------------------------------------------------------------------
(* Time formatting *)

\* time.time() returns a double.  The readings of the clock are taken on
\* the grid of the eighths of a second: each is a double, and so is the
\* difference of any two of them, so that time.time() - self.last_time is
\* their exact difference.
TicksPerSecond == 8

\* A double that is not on the grid is [q, d]: it is q/40 s when d is
\* "exact", and the double next to q/40 s on the side d ("up", "down")
\* otherwise.
Exactly(t) == [q |-> 5 * t, d |-> "exact"]

\* The double nearest to the fraction num/den (both positive): is it
\* above the fraction ("up"), below it ("down") or equal to it ("exact").
\* The fraction is scaled into [1, 2) and divided out to the 52 bits
\* after the leading one; what is left decides the rounding (ties to even).
RECURSIVE ScaleUp(_, _)
ScaleUp(num, den) == IF num < den THEN ScaleUp(2 * num, den) ELSE num

RECURSIVE ScaleDown(_, _)
ScaleDown(num, den) == IF num >= 2 * den THEN ScaleDown(num, 2 * den) ELSE den

RECURSIVE Mantissa(_, _, _, _)
Mantissa(r, den, k, lastbit) ==
    IF k = 0
    THEN IF r = 0 THEN "exact"
         ELSE IF 2 * r > den THEN "up"
         ELSE IF 2 * r = den /\ lastbit = 1 THEN "up"
         ELSE "down"
    ELSE IF 2 * r >= den THEN Mantissa(2 * r - den, den, k - 1, 1)
         ELSE Mantissa(2 * r, den, k - 1, 0)

DoubleOf(num, den) ==
    LET a == ScaleUp(num, den)
        b == ScaleDown(a, den)
    IN  Mantissa(a - b, b, 52, 1)

\* t - .1 for t > 0 on the grid: on which side of (5t - 4)/40 s the double
\* falls.  The literal .1 is the double (2^54 + 1)/(5 * 2^55), above 1/10.
\* Counted in units of 2^-55 s the exact difference is an integer with s
\* bits more than a double holds, and it lies 1/5 of a unit below
\* (5t - 4)/40 s.  With s = 0 nothing is rounded and the double is below.
\* Otherwise the s low bits are the l with 5l + 1 = 0 modulo 2^s, and the
\* double is above when they round up (at the half, s = 1, the bit above
\* is set: up).
RECURSIVE LostBits(_, _)
LostBits(n, p) == IF n < 2 * p THEN 0 ELSE 1 + LostBits(n, 2 * p)

TenthOff(t) ==
    LET n == 5 * t - 4
        s == IF n < 5 THEN 0 ELSE LostBits(n, 5)
        m == 2 ^ s
        l == CHOOSE x \in 0 .. (m - 1) : (5 * x + 1) % m = 0
    IN  IF s = 0 THEN "down" ELSE IF 2 * l >= m THEN "up" ELSE "down"

\* max(0, t - .1) under Windows, t otherwise
_squeeze_time(t) ==
    IF platform = "win"
    THEN IF 5 * t - 4 > 0 THEN [q |-> 5 * t - 4, d |-> TenthOff(t)]
         ELSE Exactly(0)
    ELSE Exactly(t)

\* the integer nearest to num/den, the even one of two at the same distance
RoundHalfEven(num, den) ==
    LET n == num \div den
        rest == num % den
    IN  IF 2 * rest < den THEN n
        ELSE IF 2 * rest > den THEN n + 1
        ELSE IF n % 2 = 0 THEN n ELSE n + 1

\* of the two integers n and n + 1 at the same distance of a fraction, the
\* one nearest to a double on the side d of the fraction
Nearest(n, d) ==
    IF d = "up" THEN n + 1
    ELSE IF d = "down" THEN n
    ELSE IF n % 2 = 0 THEN n ELSE n + 1

\* "%.1f" % x, in tenths of a second: x is x.q/4 tenths
Seconds1(x) ==
    IF x.q % 4 = 2 THEN Nearest(x.q \div 4, x.d) ELSE RoundHalfEven(x.q, 4)

\* "%.2f" % t, in hundredths of a second, for t on the grid
Seconds2(t) == RoundHalfEven(100 * t, TicksPerSecond)

\* "%.1f" % (x / 60.), in tenths of a minute: x is x.q/240 tenths of a
\* minute.  Half way between two tenths (x.q = 240n + 120, the quotient is
\* (2n + 1)/20 min) the double decides: for x on the grid the double
\* nearest to (2n + 1)/20; for x off the grid, which is then one unit in
\* the last place or more from the whole seconds 6n + 3, the side of x.
Minutes1(x) ==
    LET n == x.q \div 240 IN
    IF x.q % 240 # 120 THEN RoundHalfEven(x.q, 240)
    ELSE Nearest(n, IF x.d = "exact" THEN DoubleOf(2 * n + 1, 20) ELSE x.d)

\* "%.1fs, %.1fmin" % (t, t / 60.)
format_time(t) ==
    [fmt |-> "%.1fs, %.1fmin", secs |-> Seconds1(_squeeze_time(t)),
     mins |-> Minutes1(_squeeze_time(t))]

\* "%s: %.2fs, %.1f min" % (msg, time_lapse, time_lapse / 60)
format_total(t) ==
    [fmt |-> "%.2fs, %.1f min", secs |-> Seconds2(t), mins |-> Minutes1(Exactly(t))]

Line(kind, msg, f) ==
    [kind |-> kind, msg |-> msg, fmt |-> f.fmt, secs |-> f.secs, mins |-> f.mins]

\* "%s: %s" % (msg, format_time(time_lapse)) and its total=True variant
full_msg(msg, total, time_lapse) ==
    IF ~total THEN Line("report", msg, format_time(time_lapse))
    ELSE Line("report", msg, format_total(time_lapse))

\* '\nLogging joblib python script\n'
Banner ==
    [kind |-> "banner", msg |-> "Logging joblib python script",
     fmt |-> "", secs |-> 0, mins |-> 0]

\* '\n---%s---\n' % time.ctime(self.last_time): the time to the second
Stamp(t) ==
    [kind |-> "ctime", msg |-> "", fmt |-> "---%s---",
     secs |-> t \div TicksPerSecond, mins |-> 0]

Header(t) == <<Banner, Stamp(t)>>

----------------------------------------------------------------------------
(* File system primitives.  ok = FALSE is a failure of the call. *)

Absent == [exists |-> FALSE, data |-> <<>>]
File(d) == [exists |-> TRUE, data |-> d]
NoFiles == [s \in Slots |-> Absent]

\* os.path.join(logdir, 'joblib.log')
Join(logdir) == IF logdir = "d" THEN "d/joblib.log" ELSE "joblib.log"

\* os.path.dirname(logfile)
Dirname(path) == IF path = "d/joblib.log" THEN "d" ELSE ""

\* os.path.exists(os.path.dirname(logfile))
DirExists(d, path) == Dirname(path) = "d" /\ d

\* os.makedirs(os.path.dirname(logfile)) succeeds only on a creatable,
\* not yet existing directory; '' is never creatable
MakedirsOk(d, path, ok) == Dirname(path) = "d" /\ ~d /\ ok

\* shutil.move(logfile.i, logfile.(i+1)): os.rename, and if it raises
\* OSError, copy2(logfile.i, logfile.(i+1)) then os.unlink(logfile.i)
MoveOk(f, i, ok) == f[i].exists /\ ok
Rename(f, i) == [f EXCEPT ![i + 1] = f[i], ![i] = Absent]

\* A handle that cannot write all of its buffer leaves some of the entries
\* written, the last of them possibly in part.  A file holds entries and
\* parts of entries: "torn" is a part that starts with the first byte of
\* the entry and stops before its last, "tail" one that starts after the
\* first and ends with the last, "mid" one that does neither.  A part
\* keeps the fields of its entry; how many bytes it has is not kept (one
\* value stands for every length).
Torn(e) == [e EXCEPT !.kind = IF e.kind \in {"tail", "mid"} THEN "mid" ELSE "torn"]
Whole(e) ==
    [e EXCEPT !.kind = IF e.fmt = Banner.fmt THEN "banner"
                       ELSE IF e.fmt = Stamp(0).fmt THEN "ctime" ELSE "report"]
Partial(buf) ==
    UNION {{SubSeq(buf, 1, n), Append(SubSeq(buf, 1, n), Torn(buf[n + 1]))} :
              n \in 0 .. (Len(buf) - 1)}

\* The bytes of the entries, one string per byte
Digits == <<"0", "1", "2", "3", "4", "5", "6", "7", "8", "9">>
Digit(n) == Digits[n + 1]
IsDigit(c) == \E n \in 1 .. Len(Digits) : Digits[n] = c
DigitVal(c) == (CHOOSE n \in 1 .. Len(Digits) : Digits[n] = c) - 1

RECURSIVE Numeral(_)
Numeral(n) ==
    IF n < 10 THEN <<Digit(n)>> ELSE Append(Numeral(n \div 10), Digit(n % 10))

\* "%.1f" of x tenths and "%.2f" of x hundredths
Fixed(x, places) ==
    IF places = 1 THEN Numeral(x \div 10) \o <<".", Digit(x % 10)>>
    ELSE Numeral(x \div 100) \o <<".", Digit((x \div 10) % 10), Digit(x % 10)>>

TwoDigits(n) == <<Digit(n \div 10), Digit(n % 10)>>

\* time.ctime(secs) for a time of the first day after the epoch, the
\* local time being UTC: 'Thu Jan  1 HH:MM:SS 1970'
CTimeHead == <<"T", "h", "u", " ", "J", "a", "n", " ", " ", "1", " ">>
CTime(secs) ==
    CTimeHead \o TwoDigits(secs \div 3600) \o <<":">>
    \o TwoDigits((secs \div 60) % 60) \o <<":">> \o TwoDigits(secs % 60)
    \o <<" ", "1", "9", "7", "0">>

StampHead == <<"\n", "-", "-", "-">> \o CTimeHead

BannerBytes ==
    <<"\n", "L", "o", "g", "g", "i", "n", "g", " ", "j", "o", "b", "l", "i",
      "b", " ", "p", "y", "t", "h", "o", "n", " ", "s", "c", "r", "i", "p",
      "t", "\n">>

MsgBytes(msg) == CASE msg = "Foo" -> <<"F", "o", "o">> [] msg = "" -> <<>>

\* what is written for an entry: the banner, '\n---%s---\n' % time.ctime(..),
\* and full_msg followed by the '\n' of print
Bytes(e) ==
    IF e.fmt = Banner.fmt THEN BannerBytes
    ELSE IF e.fmt = Stamp(0).fmt
    THEN <<"\n", "-", "-", "-">> \o CTime(e.secs) \o <<"-", "-", "-", "\n">>
    ELSE IF e.fmt = "%.1fs, %.1fmin"
    THEN MsgBytes(e.msg) \o <<":", " ">> \o Fixed(e.secs, 1) \o <<"s", ",", " ">>
         \o Fixed(e.mins, 1) \o <<"m", "i", "n", "\n">>
    ELSE MsgBytes(e.msg) \o <<":", " ">> \o Fixed(e.secs, 2) \o <<"s", ",", " ">>
         \o Fixed(e.mins, 1) \o <<" ", "m", "i", "n", "\n">>

\* The entries whose bytes are s (one at most): the fields are read off
\* the digits of s and kept if they give s back
RECURSIVE Value(_, _, _)
Value(s, i, j) == IF i > j THEN 0 ELSE 10 * Value(s, i, j - 1) + DigitVal(s[j])

RunStart(s, p) ==
    LET N == {j \in 1 .. (p - 1) : ~IsDigit(s[j])} IN
    IF N = {} THEN 1 ELSE (CHOOSE j \in N : \A k \in N : k <= j) + 1
RunEnd(s, p) ==
    LET N == {j \in (p + 1) .. Len(s) : ~IsDigit(s[j])} IN
    IF N = {} THEN Len(s) ELSE (CHOOSE j \in N : \A k \in N : j <= k) - 1

ParseStamp(s) ==
    LET h == Len(StampHead) IN
    IF Len(s) = Len(Bytes(Stamp(0)))
       /\ \A i \in {h + 1, h + 2, h + 4, h + 5, h + 7, h + 8} : IsDigit(s[i])
    THEN LET v == 3600 * Value(s, h + 1, h + 2) + 60 * Value(s, h + 4, h + 5)
                  + Value(s, h + 7, h + 8)
             c == [Stamp(0) EXCEPT !.secs = v]
         IN  IF v < 24 * 3600 /\ Bytes(c) = s THEN {c} ELSE {}
    ELSE {}

ParseReport(s, msgs) ==
    LET dots == {i \in 1 .. Len(s) : s[i] = "."} IN
    IF Cardinality(dots) # 2 THEN {}
    ELSE LET p1 == CHOOSE i \in dots : \A k \in dots : i <= k
             p2 == CHOOSE i \in dots : \A k \in dots : k <= i
             places == RunEnd(s, p1) - p1
         IN  IF places \notin {1, 2} \/ RunEnd(s, p2) - p2 # 1 THEN {}
             ELSE LET x == (10 ^ places) * Value(s, RunStart(s, p1), p1 - 1)
                           + Value(s, p1 + 1, p1 + places)
                      y == 10 * Value(s, RunStart(s, p2), p2 - 1)
                           + Value(s, p2 + 1, p2 + 1)
                      f == IF places = 1 THEN "%.1fs, %.1fmin"
                           ELSE "%.2fs, %.1f min"
                  IN  {c \in {Line("report", m, [fmt |-> f, secs |-> x, mins |-> y]) :
                                 m \in msgs} : Bytes(c) = s}

Entries(s, msgs) ==
    (IF s = BannerBytes THEN {Banner} ELSE {})
    \cup ParseStamp(s) \cup ParseReport(s, msgs)

\* The bytes a to b of entry e, as the file holds them
Piece(e, a, b) ==
    [e EXCEPT !.kind = IF a = 1 /\ b = Len(Bytes(e)) THEN Whole(e).kind
                       ELSE IF a = 1 THEN "torn"
                       ELSE IF b = Len(Bytes(e)) THEN "tail" ELSE "mid"]

\* the bytes an entry or a part can stand for
Extents(e) ==
    LET n == Len(Bytes(e)) IN
    IF e.kind = "torn" THEN {<<1, b>> : b \in 1 .. (n - 1)}
    ELSE IF e.kind = "tail" THEN {<<a, n>> : a \in 2 .. n}
    ELSE IF e.kind = "mid"
    THEN {x \in (2 .. (n - 1)) \X (2 .. (n - 1)) : x[1] <= x[2]}
    ELSE {<<1, n>>}

\* the contents d can stand for, each a sequence of [e, a, b]: bytes a to
\* b of entry e
RECURSIVE Readings(_)
Readings(d) ==
    IF d = <<>> THEN {<<>>}
    ELSE {<<[e |-> Whole(Head(d)), a |-> x[1], b |-> x[2]]>> \o r :
             x \in Extents(Head(d)), r \in Readings(Tail(d))}

RECURSIVE Count(_)
Count(cs) ==
    IF cs = <<>> THEN 0 ELSE Head(cs).b - Head(cs).a + 1 + Count(Tail(cs))

\* what is left of the contents cs after their first n bytes
RECURSIVE Skip(_, _)
Skip(cs, n) ==
    IF cs = <<>> \/ n = 0 THEN cs
    ELSE LET p == Head(cs)
             k == p.b - p.a + 1
         IN  IF n >= k THEN Skip(Tail(cs), n - k)
             ELSE <<[p EXCEPT !.a = p.a + n]>> \o Tail(cs)

\* every byte of the contents cs: c the byte, e and k the entry and the
\* place in the entry it was written from
RECURSIVE Flat(_)
Flat(cs) ==
    IF cs = <<>> THEN <<>>
    ELSE LET p == Head(cs)
             bs == Bytes(p.e)
         IN  [k \in 1 .. (p.b - p.a + 1) |->
                 [c |-> bs[p.a + k - 1], e |-> p.e, k |-> p.a + k - 1]]
             \o Flat(Tail(cs))

Chars(x, i, j) == [k \in 1 .. (j - i + 1) |-> x[i + k - 1].c]

\* the place of the first '\n' of x at or after i, or 0
NextNL(x, i) ==
    LET J == {j \in i .. Len(x) : x[j].c = "\n"} IN
    IF J = {} THEN 0 ELSE CHOOSE j \in J : \A k \in J : j <= k

\* where the entry that starts at i would end: at its '\n', the second one
\* when it starts with one
EntryEnd(x, i) == IF x[i].c = "\n" THEN NextNL(x, i + 1) ELSE NextNL(x, i)

\* the last byte from i on that continues the part of one entry
PartEnd(x, i) ==
    LET B == {j \in (i + 1) .. Len(x) :
                 x[j].e # x[j - 1].e \/ x[j].k # x[j - 1].k + 1} IN
    IF B = {} THEN Len(x) ELSE (CHOOSE j \in B : \A k \in B : j <= k) - 1

MsgsOf(x) == {x[j].e.msg : j \in {h \in 1 .. Len(x) : x[h].e.kind = "report"}}

\* The bytes x from i on as entries and parts: bytes that make a whole
\* entry are that entry, whatever they were written from; other bytes are
\* the part of the entry they were written from, and a first part that the
\* following part continues as the bytes of an entry is the first part of
\* that entry
RECURSIVE Scan(_, _)
Scan(x, i) ==
    IF i > Len(x) THEN <<>>
    ELSE LET j == EntryEnd(x, i)
             found == IF j = 0 THEN {} ELSE Entries(Chars(x, i, j), MsgsOf(x))
             g == PartEnd(x, i)
             h == IF g < Len(x) THEN PartEnd(x, g + 1) ELSE g
             more == IF x[i].k = 1 /\ g < Len(x)
                     THEN Entries(Chars(x, i, g)
                                  \o SubSeq(Bytes(x[g + 1].e), x[g + 1].k,
                                            Len(Bytes(x[g + 1].e))), MsgsOf(x))
                     ELSE {}
         IN  IF found # {} THEN <<CHOOSE e \in found : TRUE>> \o Scan(x, j + 1)
             ELSE IF more # {}
             THEN <<Piece(CHOOSE e \in more : TRUE, 1, h - i + 1)>> \o Scan(x, h + 1)
             ELSE <<Piece(x[i].e, x[i].k, x[g].k)>> \o Scan(x, g + 1)

\* The contents of a file that holds old after new is written at offset 0:
\* the bytes of new take the place of as many bytes of old, the bytes of
\* old after them stay.  One result for each number of bytes the parts
\* can have.
Over(old, new) ==
    IF old = <<>> THEN {new}
    ELSE IF new = <<>> THEN {old}
    ELSE {Scan(Flat(n \o Skip(o, Count(n))), 1) :
             n \in Readings(new), o \in Readings(old)}

\* The release of a handle whose offset is 0 on the file now in a slot:
\* what its buffer holds is written there
Flush(f, slot, buf) ==
    {[f EXCEPT ![slot] = File(d)] : d \in Over(f[slot].data, buf)}

\* What CPython prints on sys.stderr when the release of a handle at the
\* end of a statement or of a call cannot write the buffer
CloseFailed ==
    <<[kind |-> "destructor", msg |-> "close failed in file object destructor:",
       fmt |-> "", secs |-> 0, mins |-> 0],
      [kind |-> "destructor", msg |-> "IOError", fmt |-> "", secs |-> 0, mins |-> 0]>>

\* file(logfile, 'w'): the file is created or truncated; the handle has an
\* empty buffer and its own offset 0
OpenWNoTruncate(f) == [f EXCEPT ![0] = File(f[0].data)]
OpenW(f) == [f EXCEPT ![0] = File(<<>>)]

\* logfile.write(entry): the entry goes to the buffer of the handle
Write(buf, entry) == Append(buf, entry)

\* What a move of .i whose rename has failed leaves, and how many calls
\* failed in it (at most m): the copy and the unlink are done; or the copy
\* raises at one of its opens; or its close cannot write all of the data;
\* or the copy is done and the unlink raises
MoveFallback(f, i, m) ==
    {[files |-> Rename(f, i), faults |-> 1]}
    \cup (IF m > 1
          THEN {[files |-> g, faults |-> 2] :
                   g \in {f} \cup {[f EXCEPT ![i + 1] = File(w)] :
                                      w \in Partial(f[i].data) \cup {f[i].data}}}
          ELSE {})

\* The results of shutil.move(logfile.i, logfile.(i+1)) on a file that
\* exists, over every way at most m calls can fail in it
Move(f, i, m) ==
    {[files |-> Rename(f, i), faults |-> 0]}
    \cup (IF m > 0 THEN MoveFallback(f, i, m) ELSE {})

\* shutil.copy(logfile, logfile + '.1'): open(logfile), open(logfile.1, 'wb')
\* which creates or truncates it, read, write, close
OpenWB(f) == [f EXCEPT ![1] = File(<<>>)]
CopyDataAsMove(f, slot, data) ==
    {[g EXCEPT ![0] = Absent] : g \in Flush(f, slot, data)}
CopyData(f, slot, data) == Flush(f, slot, data)

CopyOk(f, ok) == f[0].exists /\ ok
Copy(f, ok) == IF CopyOk(f, ok) THEN CopyData(OpenWB(f), 1, f[0].data) ELSE {f}

\* the copies whose close cannot write all of the data: it raises
CopyCut(f) == UNION {CopyData(OpenWB(f), 1, w) : w \in Partial(f[0].data)}

\* print >> file(self.logfile, 'a'), full_msg: the handle is released at
\* the end of the statement.  how: "ok"; "open", file() raises; "none" and
\* "torn", the release can write nothing, or part of the line
Appends == {"ok", "open", "none", "torn"}
AppendLine(f, line) == [f EXCEPT ![0] = File(Append(f[0].data, line))]
Appended(f, line, how) ==
    IF how = "ok" THEN AppendLine(f, line)
    ELSE IF how = "torn" THEN AppendLine(f, Torn(line))
    ELSE IF how = "none" THEN [f EXCEPT ![0] = File(f[0].data)]
    ELSE f
AppendErr(how) == IF how \in {"none", "torn"} THEN CloseFailed ELSE <<>>

----------------------------------------------------------------------------
(* PrintTime.__init__ *)

NoTimer == [alive |-> FALSE, logfile |-> None, start_time |-> 0, last_time |-> 0]
NewTimer(target, t0) ==
    [alive |-> TRUE, logfile |-> target, start_time |-> t0, last_time |-> t0]

\* number of injected failures in one file-system call
Fault(ok) == IF ok THEN 0 ELSE 1

\* if logfile is not None and logdir is not None: raise ValueError
ArgsConflictNever(logfile, logdir) == FALSE
ArgsConflict(logfile, logdir) == logfile # None /\ logdir # None

\* if logdir is not None: logfile = os.path.join(logdir, 'joblib.log')
Target(logfile, logdir) == IF logdir # None THEN Join(logdir) ELSE logfile

\* for i in range(1, 9): if exists(logfile.i): try: move(logfile.i, logfile.(i+1))
\* The set of results over every way at most m of the moves can fail.
Outcomes(m) == IF m > 0 THEN BOOLEAN ELSE {TRUE}

RECURSIVE RotateFrom(_, _, _)
RotateFrom(f, i, m) ==
    IF i > NumBackups THEN {[files |-> f, faults |-> 0]}
    ELSE IF ~f[i].exists THEN RotateFrom(f, i + 1, m)
    ELSE UNION {{[files |-> r.files, faults |-> r.faults + mv.faults] :
                    r \in RotateFrom(mv.files, i + 1, m - mv.faults)} :
                       mv \in Move(f, i, m)}

\* if os.path.exists(logfile): rotate the backups, then try: copy(logfile, logfile.1)
\* The copy is done, or raises at one of its opens, or at its close
Rotate(f, m) ==
    IF ~f[0].exists THEN {[files |-> f, faults |-> 0]}
    ELSE UNION {{[files |-> g, faults |-> r.faults] : g \in Copy(r.files, TRUE)}
                \cup (IF m - r.faults > 0
                      THEN {[files |-> g, faults |-> r.faults + 1] :
                               g \in Copy(r.files, FALSE) \cup CopyCut(r.files)}
                      ELSE {}) : r \in RotateFrom(f, 1, m)}

\* try: logfile = file(logfile, 'w'); write banner; write time stamp; except: pass
\* The open raises, or the handle is opened, its buffer filled by the two
\* writes and, at the return, written or not written in full; err: what
\* the release prints on sys.stderr
WriteHeader(f, t0, m) ==
    LET buf == Write(Write(<<>>, Banner), Stamp(t0)) IN
    {[files |-> g, err |-> <<>>, faults |-> 0] : g \in Flush(OpenW(f), 0, buf)}
    \cup (IF m > 0
          THEN {[files |-> f, err |-> <<>>, faults |-> 1]}
               \cup UNION {{[files |-> g, err |-> CloseFailed, faults |-> 1] :
                               g \in Flush(OpenW(f), 0, w)} : w \in Partial(buf)}
          ELSE {})

\* if logfile is not None: the file-system part of the constructor, from a
\* directory that exists
Establish(f, t0, m) ==
    UNION {{[dir |-> TRUE, files |-> h.files, raised |-> "none", err |-> h.err,
             faults |-> r.faults + h.faults] :
                h \in WriteHeader(r.files, t0, m - r.faults)} : r \in Rotate(f, m)}

\* The results of PrintTime(logfile, logdir) called at time t0, over every
\* way at most m of its file-system calls can fail
PrintTime_init(d, f, logfile, logdir, t0, m) ==
    IF ArgsConflict(logfile, logdir)
    THEN {[dir |-> d, files |-> f, raised |-> "ValueError", err |-> <<>>,
           faults |-> 0]}
    ELSE LET target == Target(logfile, logdir) IN
         IF target = None
         THEN {[dir |-> d, files |-> f, raised |-> "none", err |-> <<>>,
                faults |-> 0]}
         ELSE IF DirExists(d, target)
         THEN Establish(f, t0, m)
         ELSE UNION {IF MakedirsOk(d, target, ok)
                     THEN Establish(f, t0, m)
                     ELSE {[dir |-> d, files |-> f, raised |-> "OSError",
                            err |-> <<>>, faults |-> Fault(ok)]} :
                        ok \in IF Dirname(target) = "d" THEN Outcomes(m) ELSE {TRUE}}

----------------------------------------------------------------------------
(* PrintTime.__call__ *)

\* time.time() - self.last_time, or time.time() - self.start_time if total:
\* the difference of two readings on the grid
TimeLapse(t, total, now1) ==
    IF ~total THEN now1 - t.last_time ELSE now1 - t.start_time

\* Variant: the append is not guarded, a failure of file() propagates
PrintTime_call_Unguarded(t, f, msg, total, now1, now2, how) ==
    LET lapse == TimeLapse(t, total, now1)
        line == full_msg(msg, total, lapse)
        tried == t.logfile # None
    IN  IF tried /\ how = "open"
        THEN [timer |-> t, files |-> f, line |-> line, lapse |-> lapse,
              err |-> <<>>, raised |-> "IOError", faults |-> 1]
        ELSE [timer |-> [t EXCEPT !.last_time = now2],
              files |-> IF tried THEN Appended(f, line, how) ELSE f,
              line |-> line, lapse |-> lapse,
              err |-> IF tried THEN AppendErr(how) ELSE <<>>, raised |-> "none",
              faults |-> IF tried THEN Fault(how = "ok") ELSE 0]

\* Variant: a total=True call leaves last_time alone
PrintTime_call_TotalKeepsCheckpoint(t, f, msg, total, now1, now2, how) ==
    LET lapse == TimeLapse(t, total, now1)
        line == full_msg(msg, total, lapse)
        tried == t.logfile # None
    IN  [timer |-> IF total THEN t ELSE [t EXCEPT !.last_time = now2],
         files |-> IF tried THEN Appended(f, line, how) ELSE f,
         line |-> line, lapse |-> lapse,
         err |-> IF tried THEN AppendErr(how) ELSE <<>>, raised |-> "none",
         faults |-> IF tried THEN Fault(how = "ok") ELSE 0]

\* The result of print_time(msg, total): time.time() returns now1 at the
\* top of the call and now2 at its end; how: what becomes of the append;
\* line, err: what the call prints on sys.stderr, in this order
PrintTime_call(t, f, msg, total, now1, now2, how) ==
    LET lapse == TimeLapse(t, total, now1)
        line == full_msg(msg, total, lapse)
        tried == t.logfile # None
    IN  [timer |-> [t EXCEPT !.last_time = now2],
         files |-> IF tried THEN Appended(f, line, how) ELSE f,
         line |-> line, lapse |-> lapse,
         err |-> IF tried THEN AppendErr(how) ELSE <<>>, raised |-> "none",
         faults |-> IF tried THEN Fault(how = "ok") ELSE 0]

----------------------------------------------------------------------------
(* The calls of a single caller, one after the other *)

NoCall ==
    [op |-> "none", logfile |-> None, logdir |-> None, msg |-> "",
     both |-> FALSE, total |-> FALSE, now1 |-> 0, lapse |-> 0, failed |-> FALSE,
     fresh |-> FALSE, injected |-> FALSE]

\* did a file-system call of the constructor fail
Failed(out) == out.faults > 0 \/ out.raised = "OSError"

\* fresh: the timer was constructed on a path with no log file; ok: no
\* file-system call has failed for it; k: its reports; born, mark: the times
\* its construction and its latest call ended; reports: all reports so far
NoSess ==
    [fresh |-> FALSE, ok |-> FALSE, k |-> 0, born |-> 0, mark |-> 0, reports |-> 0]

Procs == {1, 2}

\* src, dst: the files a constructor has open as the source and as the
\* destination of a copy, each named by the slot that now holds it, or, for
\* a file that has no name any more, by OrphanRef(k), k its place in
\* env.orphans; data: what the constructor has read of the source
NoSlot == -1
OrphanRef(k) == NumBackups + 1 + k

NoLocals ==
    [target |-> None, t0 |-> 0, i |-> 0, raised |-> "none", live0 |-> Absent,
     buf |-> <<>>, src |-> NoSlot, dst |-> NoSlot, data |-> <<>>]

\* no step-wise constructor runs
InitStep ==
    /\ pc = [p \in Procs |-> "idle"]
    /\ loc = [p \in Procs |-> NoLocals]
    /\ env = [injected |-> FALSE, procs |-> {}, orphans |-> <<>>]

Init ==
    /\ clock = 0
    /\ platform \in {"posix", "win"}
    /\ dir \in BOOLEAN
    /\ files = NoFiles
    /\ timer = NoTimer
    /\ stderr = <<>>
    /\ raised = "none"
    /\ last = NoCall
    /\ sess = NoSess
    /\ spent = 0
    /\ InitStep

\* the path is fresh: it names no file (no file is ever made at
\* "test.log", os.makedirs('') raises before)
Fresh(target, f) ==
    target # None /\ (target = "d/joblib.log" => ~f[0].exists)

\* print_time = PrintTime(logfile=logfile, logdir=logdir)
Construct(logfile, logdir, t0) ==
    /\ (logfile # None /\ logdir # None) => t0 = clock
    /\ spent + 1 + (t0 - clock) <= MaxEvents
    /\ \E out \in PrintTime_init(dir, files, logfile, logdir, t0,
                                 MaxEvents - spent - 1 - (t0 - clock)) :
        /\ spent + 1 + (t0 - clock) + out.faults <= MaxEvents
        /\ spent' = spent + 1 + (t0 - clock) + out.faults
        /\ dir' = out.dir
        /\ files' = out.files
        /\ raised' = out.raised
        /\ timer' = IF out.raised = "none"
                    THEN NewTimer(Target(logfile, logdir), t0) ELSE timer
        /\ sess' = IF out.raised = "none"
                   THEN [fresh |-> Fresh(Target(logfile, logdir), files),
                         ok |-> ~Failed(out), k |-> 0, born |-> t0, mark |-> t0,
                         reports |-> sess.reports]
                   ELSE sess
        /\ last' = [NoCall EXCEPT !.op = "construct", !.now1 = t0,
                                  !.logfile = logfile, !.logdir = logdir,
                                  !.both = (logfile # None /\ logdir # None),
                                  !.failed = Failed(out),
                                  !.fresh = Fresh(Target(logfile, logdir), files),
                                  !.injected = out.faults > 0]
        /\ stderr' = stderr \o out.err
    /\ clock' = t0
    /\ UNCHANGED platform
    /\ UNCHANGED stepVars

\* print_time(msg, total=total)
Report(msg, total, now1, now2, how) ==
    /\ timer.alive
    /\ timer.logfile = None => how = "ok"
    /\ LET out == PrintTime_call(timer, files, msg, total, now1, now2, how) IN
        /\ stderr' = Append(stderr, out.line) \o out.err
        /\ files' = out.files
        /\ timer' = out.timer
        /\ raised' = out.raised
        /\ sess' = [sess EXCEPT !.ok = sess.ok /\ ~Failed(out), !.k = sess.k + 1,
                                  !.mark = now2, !.reports = sess.reports + 1]
        /\ last' = [NoCall EXCEPT !.op = "report", !.msg = msg, !.total = total,
                                  !.now1 = now1, !.lapse = out.lapse,
                                  !.failed = Failed(out)]
        /\ spent + 1 + (now2 - clock) + out.faults <= MaxEvents
        /\ spent' = spent + 1 + (now2 - clock) + out.faults
    /\ clock' = now2
    /\ UNCHANGED <<platform, dir>>
    /\ UNCHANGED stepVars

\* logging.warn / logging.debug on the root logger, whose handler writes
\* "LEVEL:root:[logger]: msg" to sys.stderr
LogLine(level, msg) ==
    [kind |-> "logging", msg |-> msg, fmt |-> level, secs |-> 0, mins |-> 0]

\* Logger().warn(msg) and Logger().debug(msg); allowed: the level the root
\* logger has at the time of the call lets the record through
Log(level, msg, allowed) ==
    /\ spent < MaxEvents
    /\ spent' = spent + 1
    /\ stderr' = IF allowed THEN Append(stderr, LogLine(level, msg)) ELSE stderr
    /\ raised' = "none"
    /\ last' = [NoCall EXCEPT !.op = "log", !.msg = msg]
    /\ UNCHANGED <<clock, platform, dir, files, timer, sess>>
    /\ UNCHANGED stepVars

\* the values time.time() can return next
Times == clock .. (clock + MaxEvents - spent - 1)

Next ==
    \/ \E logfile \in LogFiles, logdir \in LogDirs, t0 \in Times :
          Construct(logfile, logdir, t0)
    \/ \E msg \in Msgs, total \in BOOLEAN, now1 \in Times, how \in Appends :
          \E now2 \in now1 .. (clock + MaxEvents - spent - 1) :
              Report(msg, total, now1, now2, how)
    \/ \E level \in {"WARNING", "DEBUG"}, msg \in Msgs, allowed \in BOOLEAN :
          Log(level, msg, allowed)

Spec == Init /\ [][Next]_vars

----------------------------------------------------------------------------
(* PrintTime.__init__ step by step: one action per file-system call, for    *)
(* constructors that run at the same time on the same path.  The writes of *)
(* the header stay in the buffer of the handle until __init__ returns.     *)

\* The directory after k earlier sessions, none of which met a failure:
\* session n was constructed n seconds after the epoch and made one report
\* at once
FaultFree(d, f, t0) ==
    CHOOSE out \in PrintTime_init(d, f, "d/joblib.log", None, t0, 0) :
        out.faults = 0 /\ out.raised = "none"

RECURSIVE Past(_)
Past(k) ==
    IF k = 0 THEN [dir |-> TRUE, files |-> NoFiles]
    ELSE LET prev == Past(k - 1)
             at == k * TicksPerSecond
             out == FaultFree(prev.dir, prev.files, at)
             t == NewTimer("d/joblib.log", at)
         IN  [dir |-> out.dir,
              files |-> PrintTime_call(t, out.files, "Foo", FALSE, at, at, "ok").files]

InitSteps(procs) ==
    /\ platform \in {"posix", "win"}
    /\ \E k \in 0 .. MaxEvents, d \in BOOLEAN :
        /\ 2 * k + Cardinality(procs) <= MaxEvents
        /\ d = FALSE => k = 0
        /\ dir = d
        /\ files = Past(k).files
        /\ clock = (k + 1) * TicksPerSecond
        /\ spent = 2 * k
        /\ env = [injected |-> FALSE, procs |-> procs, orphans |-> <<>>]
    /\ timer = NoTimer
    /\ stderr = <<>>
    /\ raised = "none"
    /\ last = NoCall
    /\ sess = NoSess
    /\ pc = [p \in Procs |-> "idle"]
    /\ loc = [p \in Procs |-> NoLocals]

\* a failure can be injected while the budget of events lasts
CanFail(ok) == ok \/ spent < MaxEvents
Inject(ok) ==
    /\ spent' = spent + Fault(ok)
    /\ env' = [env EXCEPT !.injected = env.injected \/ ~ok]

\* the same, for a step after which the files without a name are orph
InjectWith(ok, orph) ==
    /\ spent' = spent + Fault(ok)
    /\ env' = [env EXCEPT !.injected = env.injected \/ ~ok, !.orphans = orph]

Goto(p, label) == pc' = [pc EXCEPT ![p] = label]
Raise(p, exc) ==
    /\ pc' = [pc EXCEPT ![p] = "done"]
    /\ loc' = [loc EXCEPT ![p].raised = exc]

\* lines 235-243
Begin(p, logfile, logdir) ==
    /\ pc[p] = "idle"
    /\ IF ArgsConflict(logfile, logdir)
       THEN Raise(p, "ValueError")
       ELSE /\ loc' = [loc EXCEPT ![p].target = Target(logfile, logdir),
                                  ![p].t0 = clock, ![p].live0 = files[0]]
            /\ Goto(p, IF Target(logfile, logdir) = None THEN "done" ELSE "chkdir")
    /\ spent < MaxEvents
    /\ spent' = spent + 1
    /\ UNCHANGED <<clock, platform, dir, files, timer, stderr, raised, last,
                   sess, env>>

\* line 244
ChkDir(p) ==
    /\ pc[p] = "chkdir"
    /\ Goto(p, IF DirExists(dir, loc[p].target) THEN "chklive" ELSE "mkdir")
    /\ UNCHANGED <<seqVars, loc, env>>

\* line 245: outside of any try
MkDir(p, ok) ==
    /\ pc[p] = "mkdir"
    /\ CanFail(ok)
    /\ (dir \/ Dirname(loc[p].target) # "d") => ok
    /\ IF MakedirsOk(dir, loc[p].target, ok)
       THEN dir' = TRUE /\ Goto(p, "chklive") /\ UNCHANGED loc
       ELSE Raise(p, "OSError") /\ UNCHANGED dir
    /\ Inject(ok)
    /\ UNCHANGED <<clock, platform, files, timer, stderr, raised, last, sess>>

\* line 246
ChkLive(p) ==
    /\ pc[p] = "chklive"
    /\ IF files[0].exists
       THEN Goto(p, "chkbak") /\ loc' = [loc EXCEPT ![p].i = 1]
       ELSE Goto(p, "open") /\ UNCHANGED loc
    /\ UNCHANGED <<seqVars, env>>

\* lines 248-249
ChkBak(p) ==
    /\ pc[p] = "chkbak"
    /\ IF loc[p].i > NumBackups THEN Goto(p, "copy") /\ UNCHANGED loc
       ELSE IF files[loc[p].i].exists THEN Goto(p, "move") /\ UNCHANGED loc
       ELSE loc' = [loc EXCEPT ![p].i = loc[p].i + 1] /\ UNCHANGED pc
    /\ UNCHANGED <<seqVars, env>>

\* A handle stays on its file when the file is renamed, and when the file
\* loses its name: by a rename over it (of .i, over .(i+1)) or by an unlink
\* (of .i).  The file that loses its name joins env.orphans if it is open.
Held(j) == \E q \in Procs : loc[q].src = j \/ loc[q].dst = j

Unnamed(op, i) == IF op = "rename" THEN i + 1 ELSE i

OrphansAfter(op, i) ==
    IF Held(Unnamed(op, i))
    THEN Append(env.orphans, files[Unnamed(op, i)].data)
    ELSE env.orphans

RefAfter(r, op, i) ==
    IF r = Unnamed(op, i) THEN OrphanRef(Len(env.orphans) + 1)
    ELSE IF op = "rename" /\ r = i THEN i + 1
    ELSE r

\* the locals after constructor p has renamed or unlinked its .i and goes
\* on to the next i
LocAfter(p, op) ==
    [q \in Procs |->
        [loc[q] EXCEPT !.src = RefAfter(loc[q].src, op, loc[p].i),
                       !.dst = RefAfter(loc[q].dst, op, loc[p].i),
                       !.i = IF q = p THEN loc[p].i + 1 ELSE loc[q].i]]

\* what a handle reads, and the files after w is written through a handle
\* whose offset is 0
ReadRef(r) ==
    IF r \in Slots THEN files[r].data ELSE env.orphans[r - OrphanRef(0)]

FilesWritten(r, w) == IF r \in Slots THEN CopyData(files, r, w) ELSE {files}

OrphansWritten(r, w) ==
    IF r \in Slots THEN {env.orphans}
    ELSE {[env.orphans EXCEPT ![r - OrphanRef(0)] = d] :
             d \in Over(env.orphans[r - OrphanRef(0)], w)}

\* the move of .i is over, the loop goes on
NextBackup(p) ==
    /\ loc' = [loc EXCEPT ![p].i = loc[p].i + 1, ![p].src = NoSlot,
                          ![p].dst = NoSlot, ![p].data = <<>>]
    /\ Goto(p, "chkbak")

\* lines 250-254, shutil.move: os.rename(logfile.i, logfile.(i+1)); if it
\* raises, the move goes on with a copy
MoveStep(p, ok) ==
    /\ pc[p] = "move"
    /\ CanFail(ok)
    /\ ~files[loc[p].i].exists => ok
    /\ IF MoveOk(files, loc[p].i, ok)
       THEN /\ files' = Rename(files, loc[p].i)
            /\ loc' = LocAfter(p, "rename")
            /\ Goto(p, "chkbak")
            /\ InjectWith(ok, OrphansAfter("rename", loc[p].i))
       ELSE /\ UNCHANGED <<files, loc>>
            /\ Goto(p, "mvsrc")
            /\ Inject(ok)
    /\ UNCHANGED <<clock, platform, dir, timer, stderr, raised, last, sess>>

\* shutil.move, copy2: open(logfile.i)
MoveOpenSrc(p, ok) ==
    /\ pc[p] = "mvsrc"
    /\ CanFail(ok)
    /\ ~files[loc[p].i].exists => ok
    /\ IF MoveOk(files, loc[p].i, ok)
       THEN loc' = [loc EXCEPT ![p].src = loc[p].i] /\ Goto(p, "mvdst")
       ELSE NextBackup(p)
    /\ Inject(ok)
    /\ UNCHANGED <<clock, platform, dir, files, timer, stderr, raised, last,
                   sess>>

\* shutil.move, copy2: open(logfile.(i+1), 'wb'), which creates or
\* truncates it
MoveOpenDst(p, ok) ==
    /\ pc[p] = "mvdst"
    /\ CanFail(ok)
    /\ IF ok
       THEN /\ files' = [files EXCEPT ![loc[p].i + 1] = File(<<>>)]
            /\ loc' = [loc EXCEPT ![p].dst = loc[p].i + 1]
            /\ Goto(p, "mvread")
       ELSE UNCHANGED files /\ NextBackup(p)
    /\ Inject(ok)
    /\ UNCHANGED <<clock, platform, dir, timer, stderr, raised, last, sess>>

\* shutil.move, copy2: the source is read
MoveRead(p) ==
    /\ pc[p] = "mvread"
    /\ loc' = [loc EXCEPT ![p].data = ReadRef(loc[p].src)]
    /\ Goto(p, "mvclose")
    /\ UNCHANGED <<seqVars, env>>

\* shutil.move, copy2: the destination is closed, w of the data is written;
\* a close that cannot write all of it raises
MoveClose(p, w) ==
    /\ pc[p] = "mvclose"
    /\ CanFail(w = loc[p].data)
    /\ files' \in FilesWritten(loc[p].dst, w)
    /\ IF w = loc[p].data
       THEN /\ loc' = [loc EXCEPT ![p].src = NoSlot, ![p].dst = NoSlot,
                                  ![p].data = <<>>]
            /\ Goto(p, "mvstat")
       ELSE NextBackup(p)
    /\ \E orph \in OrphansWritten(loc[p].dst, w) :
          InjectWith(w = loc[p].data, orph)
    /\ UNCHANGED <<clock, platform, dir, timer, stderr, raised, last, sess>>

\* shutil.move, copy2: copystat(logfile.i, logfile.(i+1)) raises if one of
\* the two names is gone
MoveStat(p, ok) ==
    /\ pc[p] = "mvstat"
    /\ CanFail(ok)
    /\ ~(files[loc[p].i].exists /\ files[loc[p].i + 1].exists) => ok
    /\ IF files[loc[p].i].exists /\ files[loc[p].i + 1].exists /\ ok
       THEN Goto(p, "mvunlink") /\ UNCHANGED loc
       ELSE NextBackup(p)
    /\ Inject(ok)
    /\ UNCHANGED <<clock, platform, dir, files, timer, stderr, raised, last,
                   sess>>

\* shutil.move: os.unlink(logfile.i)
MoveUnlink(p, ok) ==
    /\ pc[p] = "mvunlink"
    /\ CanFail(ok)
    /\ ~files[loc[p].i].exists => ok
    /\ IF MoveOk(files, loc[p].i, ok)
       THEN /\ files' = [files EXCEPT ![loc[p].i] = Absent]
            /\ loc' = LocAfter(p, "unlink")
            /\ Goto(p, "chkbak")
            /\ InjectWith(ok, OrphansAfter("unlink", loc[p].i))
       ELSE /\ UNCHANGED files
            /\ NextBackup(p)
            /\ Inject(ok)
    /\ UNCHANGED <<clock, platform, dir, timer, stderr, raised, last, sess>>

\* lines 257-260, shutil.copy: open(logfile)
CopyOpenSrc(p, ok) ==
    /\ pc[p] = "copy"
    /\ CanFail(ok)
    /\ ~files[0].exists => ok
    /\ Goto(p, IF CopyOk(files, ok) THEN "copydst" ELSE "open")
    /\ Inject(ok)
    /\ UNCHANGED <<clock, platform, dir, files, timer, stderr, raised, last,
                   sess, loc>>

\* shutil.copy: open(logfile.1, 'wb')
CopyOpenDst(p, ok) ==
    /\ pc[p] = "copydst"
    /\ CanFail(ok)
    /\ IF ok
       THEN /\ files' = OpenWB(files)
            /\ loc' = [loc EXCEPT ![p].dst = 1]
            /\ Goto(p, "copyread")
       ELSE UNCHANGED <<files, loc>> /\ Goto(p, "open")
    /\ Inject(ok)
    /\ UNCHANGED <<clock, platform, dir, timer, stderr, raised, last, sess>>

\* shutil.copy: the source is read and written to the buffer of the
\* destination
CopyRead(p) ==
    /\ pc[p] = "copyread"
    /\ loc' = [loc EXCEPT ![p].data = files[0].data]
    /\ Goto(p, "copyclose")
    /\ UNCHANGED <<seqVars, env>>

\* shutil.copy: the destination is closed, w of the data is written; a
\* close that cannot write all of it raises, into the except of line 259
CopyClose(p, w) ==
    /\ pc[p] = "copyclose"
    /\ CanFail(w = loc[p].data)
    /\ files' \in FilesWritten(loc[p].dst, w)
    /\ loc' = [loc EXCEPT ![p].dst = NoSlot, ![p].data = <<>>]
    /\ Goto(p, "open")
    /\ \E orph \in OrphansWritten(loc[p].dst, w) :
          InjectWith(w = loc[p].data, orph)
    /\ UNCHANGED <<clock, platform, dir, timer, stderr, raised, last, sess>>

\* lines 261-262
OpenStep(p, ok) ==
    /\ pc[p] = "open"
    /\ CanFail(ok)
    /\ IF ok /\ dir
       THEN files' = OpenW(files) /\ Goto(p, "write1")
       ELSE UNCHANGED files /\ Goto(p, "done")
    /\ Inject(ok)
    /\ UNCHANGED <<clock, platform, dir, timer, stderr, raised, last, sess, loc>>

\* line 263
Write1(p) ==
    /\ pc[p] = "write1"
    /\ loc' = [loc EXCEPT ![p].buf = Write(loc[p].buf, Banner)]
    /\ Goto(p, "write2")
    /\ UNCHANGED <<seqVars, env>>

\* line 264
Write2(p) ==
    /\ pc[p] = "write2"
    /\ loc' = [loc EXCEPT ![p].buf = Write(loc[p].buf, Stamp(loc[p].t0))]
    /\ Goto(p, "close")
    /\ UNCHANGED <<seqVars, env>>

\* lines 265-271: the constructor returns and its handle is released, w of
\* its buffer is written; a release that cannot write all of it raises
\* nothing and prints on sys.stderr
Close(p, w) ==
    /\ pc[p] = "close"
    /\ CanFail(w = loc[p].buf)
    /\ files' \in Flush(files, 0, w)
    /\ stderr' = IF w = loc[p].buf THEN stderr ELSE stderr \o CloseFailed
    /\ loc' = [loc EXCEPT ![p].buf = <<>>]
    /\ Goto(p, "done")
    /\ Inject(w = loc[p].buf)
    /\ UNCHANGED <<clock, platform, dir, timer, raised, last, sess>>

NextStep ==
    \E p \in env.procs :
        \/ \E logfile \in LogFiles, logdir \in LogDirs : Begin(p, logfile, logdir)
        \/ ChkDir(p)
        \/ \E ok \in BOOLEAN : MkDir(p, ok)
        \/ ChkLive(p)
        \/ ChkBak(p)
        \/ \E ok \in BOOLEAN : MoveStep(p, ok)
        \/ \E ok \in BOOLEAN : MoveOpenSrc(p, ok)
        \/ \E ok \in BOOLEAN : MoveOpenDst(p, ok)
        \/ MoveRead(p)
        \/ \E w \in {loc[p].data} \cup Partial(loc[p].data) : MoveClose(p, w)
        \/ \E ok \in BOOLEAN : MoveStat(p, ok)
        \/ \E ok \in BOOLEAN : MoveUnlink(p, ok)
        \/ \E ok \in BOOLEAN : CopyOpenSrc(p, ok)
        \/ \E ok \in BOOLEAN : CopyOpenDst(p, ok)
        \/ CopyRead(p)
        \/ \E w \in {loc[p].data} \cup Partial(loc[p].data) : CopyClose(p, w)
        \/ \E ok \in BOOLEAN : OpenStep(p, ok)
        \/ Write1(p)
        \/ Write2(p)
        \/ \E w \in {loc[p].buf} \cup Partial(loc[p].buf) : Close(p, w)

\* one constructor alone
SpecSolo == InitSteps({1}) /\ [][NextStep]_vars

\* two constructors at the same time
SpecRace == InitSteps(Procs) /\ [][NextStep]_vars

----------------------------------------------------------------------------
(* Properties *)

\* the step is a call of the constructor / of the timer
IsConstruct == spent' # spent /\ last'.op = "construct"
IsReport == spent' # spent /\ last'.op = "report"

\* the constructor went through rotation and met no failure
Rotated ==
    /\ IsConstruct
    /\ raised' = "none"
    /\ ~last'.failed
    /\ timer'.logfile # None
    /\ files[0].exists

\* the lines the reports printed on stderr, and the last k of them
IsReportLine(l) == l.kind = "report"
ReportLines == SelectSeq(stderr, IsReportLine)
LastLines(k) == SubSeq(ReportLines, Len(ReportLines) - k + 1, Len(ReportLines))

\* C1: a construction on a path that holds a log file, with no failing
\* file-system call, leaves in <path>.1 exactly what <path> held before,
\* and in <path> the new header alone, whatever the reports and backups
\* before it.
C1_RotationKeepsPreviousSession ==
    [][Rotated =>
          /\ files'[1] = files[0]
          /\ files'[0] = File(Header(timer'.start_time))]_vars

C1_Witness ==
    /\ last.op = "construct" /\ ~last.failed /\ raised = "none"
    /\ timer.logfile # None
    /\ files[1].exists /\ Len(files[1].data) >= 3
    /\ files[1].data[3].kind = "report"
    /\ files[0] = File(Header(timer.start_time))

\* C2: rotation moves every backup .i (i in 1..7) to .(i+1) with its
\* contents kept.
C2_BackupsShiftByOne ==
    [][Rotated =>
          \A i \in 1 .. (NumBackups - 1) :
              files[i].exists => files'[i + 1] = files[i]]_vars

\* C3: the backup .9 never exists and there are never more than 8 backups.
C3_NoBackupBeyondN ==
    /\ ~files[NumBackups + 1].exists
    /\ Cardinality({i \in Backups : files[i].exists}) <= NumBackups

\* C4: a construction with at most one of logfile and logdir never raises.
C4_OnlyConflictRaises ==
    (last.op = "construct" /\ ~last.both) => raised = "none"

\* C5: a report whose append to the log file fails (at the open, or when
\* the handle is released) does not raise, still prints its line on stderr,
\* next after what stderr held, and still advances last_time.
C5_ReportAbsorbsFailure ==
    [][(IsReport /\ last'.failed) =>
          /\ raised' = "none"
          /\ Len(stderr') > Len(stderr)
          /\ SubSeq(stderr', 1, Len(stderr) + 1) =
                Append(stderr, full_msg(last'.msg, last'.total, last'.lapse))
          /\ timer'.last_time = clock']_vars

C5_Witness ==
    /\ last.op = "report" /\ last.failed
    /\ timer.logfile # None
    /\ raised = "none"
    /\ Len(stderr) >= 3
    /\ stderr[Len(stderr) - 2].kind = "report"
    /\ SubSeq(stderr, Len(stderr) - 1, Len(stderr)) = CloseFailed
    /\ files[0].exists /\ Len(files[0].data) = 3
    /\ files[0].data[3] = Torn(stderr[Len(stderr) - 2])
    /\ timer.last_time = clock

\* C6: a construction given both logfile and logdir raises ValueError and
\* leaves the directory, every file, the caller's timer and stderr as they
\* were.
C6_ConflictRaisesFirst ==
    [][(IsConstruct /\ last'.both) =>
          /\ raised' = "ValueError"
          /\ UNCHANGED <<dir, files, timer, stderr, clock>>]_vars

C6_Witness ==
    /\ last.op = "construct" /\ last.both
    /\ raised = "ValueError"
    /\ files[0].exists /\ files[1].exists

\* C7: a construction with at most one of logfile and logdir on a path
\* that names no file, with no failure of a file-system call put in its
\* way, returns a timer and leaves at the path the header alone and no
\* backup; after k reports of that timer, none meeting a failure, the file
\* is the header followed by the k lines that these reports printed on
\* stderr, in order; the reports ever made have put one line each on stderr.
C7_FreshFileIsHeaderPlusReports ==
    /\ Len(ReportLines) = sess.reports
    /\ (last.op = "construct" /\ ~last.both /\ last.fresh /\ ~last.injected) =>
          /\ raised = "none"
          /\ timer.alive
          /\ files[0] = File(Header(timer.start_time))
          /\ \A i \in Backups : ~files[i].exists
    /\ (timer.alive /\ sess.fresh /\ sess.ok) =>
          /\ sess.k <= Len(ReportLines)
          /\ files[0] = File(Header(timer.start_time) \o LastLines(sess.k))
          /\ \A i \in Backups : ~files[i].exists

\* C9: every report, of either mode, sets last_time to the time at its
\* end and keeps start_time; a checkpoint report measures from the end of
\* the preceding call of the timer (report or construction), a cumulative
\* report from the construction.
C9_EveryReportAdvancesCheckpoint ==
    [][IsReport =>
          /\ timer'.last_time = clock'
          /\ timer'.last_time = sess'.mark
          /\ timer'.start_time = sess.born
          /\ last'.lapse = (IF last'.total THEN last'.now1 - sess.born
                            ELSE last'.now1 - sess.mark)]_vars

C9_Witness ==
    /\ last.op = "report" /\ ~last.total
    /\ Len(stderr) >= 2
    /\ stderr[Len(stderr) - 1].fmt = format_total(0).fmt
    /\ last.lapse > 0
    /\ last.lapse < last.now1 - timer.start_time

\* C8: of two constructors running at the same time on the same path,
\* with no failure other than those their interleaving causes, neither
\* raises.
C8_RacingConstructorsNeverRaise ==
    \A p \in Procs :
        (loc[p].target = "d/joblib.log" /\ ~env.injected) => loc[p].raised = "none"

\* C10: while a constructor is between its start and its opening of the
\* log file for writing, a log file that existed at the start is still
\* there with the contents it had.
BeforeOpen ==
    {"chkdir", "mkdir", "chklive", "chkbak", "move", "mvsrc", "mvdst",
     "mvread", "mvclose", "mvstat", "mvunlink", "copy", "copydst",
     "copyread", "copyclose", "open"}

C10_LiveFileUntouchedUntilOpen ==
    \A p \in env.procs :
        (pc[p] \in BeforeOpen /\ loc[p].live0.exists) => files[0] = loc[p].live0

C10_Witness ==
    /\ pc[1] = "open"
    /\ loc[1].live0.exists
    /\ files[1] = loc[1].live0
    /\ files[0] = loc[1].live0
    /\ files[NumBackups + 1].exists

====
